---- MODULE Spec2Model ----
(***************************************************************************)
(* Model of src/app.py: a Flask front-end over yt-dlp.                     *)
(*                                                                         *)
(*  - /formats and /download request handlers, one worker per request;     *)
(*  - download_video_to_temp: scratch directory, extractor call, location  *)
(*    of the produced file, cleanup on failure;                            *)
(*  - cleanup_later: the detached thread that sleeps and removes the       *)
(*    scratch directory;                                                   *)
(*  - the filesystem below the temp root, as the set of scratch            *)
(*    directories that exist and the files each one holds;                 *)
(*  - time, in steps of TickSeconds seconds that run down the sleep of     *)
(*    every cleanup thread;                                                *)
(*  - the pure parts (the conversion of the form field `resolution`, the   *)
(*    format selector, the list of resolutions) under SpecPure, which      *)
(*    draws their inputs from bounded sets.                                *)
(*                                                                         *)
(* The extractor (yt-dlp), Thread.start and send_file are external: each   *)
(* either raises or succeeds, and what the extractor leaves in the scratch *)
(* directory is any set of files.                                          *)
(***************************************************************************)
EXTENDS Integers, Sequences, FiniteSets, TLC

VARIABLES
    pc,         \* position of each request's handler
    req,        \* the request as the handler read it: route, url, fmt
    status,     \* HTTP status of the response, 0 while there is none
    body,       \* which response body the handler returned
    dirs,       \* scratch directories that exist on disk
    files,      \* files inside each scratch directory
    created,    \* history: mkdtemp was called for the request
    called,     \* history: the extractor was invoked for the request
    filename,   \* download_video_to_temp's local `filename`
    filepath,   \* the path download_video_to_temp returned
    cleanup,    \* state of the request's cleanup_later thread
    timer,      \* seconds the cleanup thread still has to sleep
    stream,     \* state of the response transfer
    removedBy,  \* history: the actors whose rmtree removed the directory
    swallowed,  \* history: the actors whose rmtree raised into `except: pass`
    p_pc,       \* position of the pure-function harness
    p_fmt,      \* harness input: want_format
    p_raw,      \* harness input: the form field `resolution`
    p_resolution, \* harness: `resolution` after the handler's conversion
    p_selector, \* harness: ydl_opts['format']
    p_formats,  \* harness input: info['formats'] as a sequence of heights
    p_heights   \* harness: the list extract_video_resolutions returns

mainvars == <<pc, req, status, body, dirs, files, created, called, filename,
              filepath, cleanup, timer, stream, removedBy, swallowed>>
purevars == <<p_pc, p_fmt, p_raw, p_resolution, p_selector, p_formats, p_heights>>
vars == <<pc, req, status, body, dirs, files, created, called, filename,
          filepath, cleanup, timer, stream, removedBy, swallowed,
          p_pc, p_fmt, p_raw, p_resolution, p_selector, p_formats, p_heights>>

(***************************************************************************)
(* Bounds and program constants                                            *)
(***************************************************************************)
\* concurrent requests
NumReqs == 2
\* seconds that pass in one step of time
TickSeconds == 5
\* seconds a handler may take from Thread.start() to send_file()
SendLatency == 5
\* threading.Thread(target=cleanup_later, args=(tempdir, 15))
Delay == 15

Reqs == 1..NumReqs

NONE == "<None>"
Urls == {NONE, "", "https://example/video1"}
FormFormats == {NONE, "mp3", "mp4", "avi"}

Titles == {"title"}
Exts == {"mp3", "mp4"}
AllFiles == [base : Titles, ext : Exts]
NoFile == [base |-> "", ext |-> ""]
FileSets == SUBSET AllFiles

NoReq == [route |-> "", url |-> NONE, fmt |-> NONE]

(***************************************************************************)
(* Helpers of the handlers                                                 *)
(***************************************************************************)
\* request.args.get(k) / request.form.get(k, default)
FormGet(v, default) == IF v = NONE THEN default ELSE v

\* Python truthiness of an optional string: `not url`
Falsy(v) == v = NONE \/ v = ""

\* os.path.splitext(filename)[0] + '.mp3'
WithMp3Ext(f) == [base |-> f.base, ext |-> "mp3"]

\* shutil.rmtree(d) by `actor`: removes the directory and all in it; raises
\* FileNotFoundError (no change) when the directory is absent
RmtreeRaises(d) == d \notin dirs

Rmtree(d, actor) ==
    /\ dirs' = dirs \ {d}
    /\ files' = [files EXCEPT ![d] = {}]
    /\ removedBy' = IF d \in dirs
                    THEN [removedBy EXCEPT ![d] = @ \cup {actor}]
                    ELSE removedBy

\* try: shutil.rmtree(d) / except Exception: pass
RmtreeGuarded(d, actor) ==
    /\ Rmtree(d, actor)
    /\ swallowed' = IF RmtreeRaises(d) THEN swallowed \cup {actor} ELSE swallowed

(***************************************************************************)
(* Initial state                                                           *)
(***************************************************************************)
MainInit ==
    /\ pc = [r \in Reqs |-> "idle"]
    /\ req = [r \in Reqs |-> NoReq]
    /\ status = [r \in Reqs |-> 0]
    /\ body = [r \in Reqs |-> ""]
    /\ dirs = {}
    /\ files = [r \in Reqs |-> {}]
    /\ created = [r \in Reqs |-> FALSE]
    /\ called = [r \in Reqs |-> FALSE]
    /\ filename = [r \in Reqs |-> NoFile]
    /\ filepath = [r \in Reqs |-> NoFile]
    /\ cleanup = [r \in Reqs |-> "none"]
    /\ timer = [r \in Reqs |-> 0]
    /\ stream = [r \in Reqs |-> "none"]
    /\ removedBy = [r \in Reqs |-> {}]
    /\ swallowed = {}

PureIdle ==
    /\ p_pc = "off"
    /\ p_fmt = "mp4"
    /\ p_raw = <<>>
    /\ p_resolution = [best |-> TRUE, n |-> 0]
    /\ p_selector = <<>>
    /\ p_formats = <<>>
    /\ p_heights = <<>>

Init == MainInit /\ PureIdle

(***************************************************************************)
(* GET /formats                                                            *)
(***************************************************************************)
Formats(r) ==
    /\ pc[r] = "idle"
    /\ \E url \in Urls, ok \in BOOLEAN :
        /\ req' = [req EXCEPT ![r] = [route |-> "formats", url |-> url, fmt |-> NONE]]
        /\ IF Falsy(url)
           THEN /\ status' = [status EXCEPT ![r] = 400]
                /\ body' = [body EXCEPT ![r] = "Missing url parameter"]
                /\ UNCHANGED called
           ELSE /\ called' = [called EXCEPT ![r] = TRUE]
                /\ IF ok
                   THEN /\ status' = [status EXCEPT ![r] = 200]
                        /\ body' = [body EXCEPT ![r] = "resolutions"]
                   ELSE /\ status' = [status EXCEPT ![r] = 400]
                        /\ body' = [body EXCEPT ![r] = "Failed to extract video info"]
    /\ pc' = [pc EXCEPT ![r] = "done"]
    /\ UNCHANGED <<dirs, files, created, filename, filepath, cleanup, timer,
                   stream, removedBy, swallowed>>
    /\ UNCHANGED purevars

(***************************************************************************)
(* POST /download: reading and validating the form. The field `resolution` *)
(* only shapes the selector handed to the extractor, whose outcome is any  *)
(* outcome here; Convert and BuildSelector below model that part.          *)
(***************************************************************************)
\* Download with the check of `format` left out
DownloadUnchecked(r) ==
    /\ pc[r] = "idle"
    /\ \E url \in Urls, f \in FormFormats :
        LET fmt == FormGet(f, "mp4") IN
        /\ req' = [req EXCEPT ![r] = [route |-> "download", url |-> url, fmt |-> fmt]]
        /\ IF Falsy(url)
           THEN /\ status' = [status EXCEPT ![r] = 400]
                /\ body' = [body EXCEPT ![r] = "Missing url"]
                /\ pc' = [pc EXCEPT ![r] = "done"]
           ELSE /\ pc' = [pc EXCEPT ![r] = "mkdtemp"]
                /\ UNCHANGED <<status, body>>
    /\ UNCHANGED <<dirs, files, created, called, filename, filepath, cleanup,
                   timer, stream, removedBy, swallowed>>
    /\ UNCHANGED purevars

Download(r) ==
    /\ pc[r] = "idle"
    /\ \E url \in Urls, f \in FormFormats :
        LET fmt == FormGet(f, "mp4") IN
        /\ req' = [req EXCEPT ![r] = [route |-> "download", url |-> url, fmt |-> fmt]]
        /\ IF Falsy(url)
           THEN /\ status' = [status EXCEPT ![r] = 400]
                /\ body' = [body EXCEPT ![r] = "Missing url"]
                /\ pc' = [pc EXCEPT ![r] = "done"]
           ELSE IF fmt \notin {"mp3", "mp4"}
           THEN /\ status' = [status EXCEPT ![r] = 400]
                /\ body' = [body EXCEPT ![r] = "Invalid format"]
                /\ pc' = [pc EXCEPT ![r] = "done"]
           ELSE /\ pc' = [pc EXCEPT ![r] = "mkdtemp"]
                /\ UNCHANGED <<status, body>>
    /\ UNCHANGED <<dirs, files, created, called, filename, filepath, cleanup,
                   timer, stream, removedBy, swallowed>>
    /\ UNCHANGED purevars

(***************************************************************************)
(* download_video_to_temp                                                  *)
(***************************************************************************)
\* tempfile.mkdtemp: a fresh directory; request r's directory is named r
Mkdtemp(r) ==
    /\ pc[r] = "mkdtemp"
    /\ dirs' = dirs \cup {r}
    /\ created' = [created EXCEPT ![r] = TRUE]
    /\ pc' = [pc EXCEPT ![r] = "extract"]
    /\ UNCHANGED <<req, status, body, files, called, filename, filepath,
                   cleanup, timer, stream, removedBy, swallowed>>
    /\ UNCHANGED purevars

\* the try block: ydl.extract_info(url, download=True), prepare_filename
ExtractInfo(r) ==
    /\ pc[r] = "extract"
    /\ called' = [called EXCEPT ![r] = TRUE]
    /\ \E left \in FileSets, ok \in BOOLEAN, e \in Exts, t \in Titles :
        /\ files' = [files EXCEPT ![r] = left]
        /\ IF ok
           THEN LET prepared == [base |-> t, ext |-> e] IN
                /\ filename' = [filename EXCEPT ![r] =
                        IF req[r].fmt = "mp3" THEN WithMp3Ext(prepared) ELSE prepared]
                /\ pc' = [pc EXCEPT ![r] = "locate"]
           ELSE /\ pc' = [pc EXCEPT ![r] = "dl_except"]
                /\ UNCHANGED filename
    /\ UNCHANGED <<req, status, body, dirs, created, filepath, cleanup, timer,
                   stream, removedBy, swallowed>>
    /\ UNCHANGED purevars

\* DownloadExcept re-raising without the cleanup
DownloadExceptLeak(r) ==
    /\ pc[r] = "dl_except"
    /\ pc' = [pc EXCEPT ![r] = "dl_raised"]
    /\ UNCHANGED <<req, status, body, dirs, files, created, called, filename,
                   filepath, cleanup, timer, stream, removedBy, swallowed>>
    /\ UNCHANGED purevars

\* except Exception: try rmtree / except pass; raise RuntimeError
DownloadExcept(r) ==
    /\ pc[r] = "dl_except"
    /\ RmtreeGuarded(r, <<"fetch", r>>)
    /\ pc' = [pc EXCEPT ![r] = "dl_raised"]
    /\ UNCHANGED <<req, status, body, created, called, filename, filepath,
                   cleanup, timer, stream>>
    /\ UNCHANGED purevars

\* "Ensure file exists": the expected path, else the first file of the glob,
\* else rmtree and raise
LocateFile(r) ==
    /\ pc[r] = "locate"
    /\ IF r \in dirs /\ filename[r] \in files[r]
       THEN /\ filepath' = [filepath EXCEPT ![r] = filename[r]]
            /\ pc' = [pc EXCEPT ![r] = "start_thread"]
            /\ UNCHANGED <<dirs, files, removedBy, filename>>
       ELSE IF files[r] # {}
       THEN /\ \E f \in files[r] :
                    /\ filename' = [filename EXCEPT ![r] = f]
                    /\ filepath' = [filepath EXCEPT ![r] = f]
            /\ pc' = [pc EXCEPT ![r] = "start_thread"]
            /\ UNCHANGED <<dirs, files, removedBy>>
       ELSE /\ Rmtree(r, <<"fetch", r>>)
            /\ pc' = [pc EXCEPT ![r] = "dl_raised"]
            /\ UNCHANGED <<filename, filepath>>
    /\ UNCHANGED <<req, status, body, created, called, cleanup,
                   timer, stream, swallowed>>
    /\ UNCHANGED purevars

(***************************************************************************)
(* POST /download: after the fetch                                         *)
(***************************************************************************)
\* except Exception as e: return 'Error during download', 500
FetchFailed(r) ==
    /\ pc[r] = "dl_raised"
    /\ status' = [status EXCEPT ![r] = 500]
    /\ body' = [body EXCEPT ![r] = "Error during download"]
    /\ pc' = [pc EXCEPT ![r] = "done"]
    /\ UNCHANGED <<req, dirs, files, created, called, filename, filepath,
                   cleanup, timer, stream, removedBy, swallowed>>
    /\ UNCHANGED purevars

\* threading.Thread(target=cleanup_later, args=(tempdir, 15)).start()
StartThread(r) ==
    /\ pc[r] = "start_thread"
    /\ \E ok \in BOOLEAN :
        IF ok
        THEN /\ cleanup' = [cleanup EXCEPT ![r] = "sleeping"]
             /\ timer' = [timer EXCEPT ![r] = Delay]
             /\ pc' = [pc EXCEPT ![r] = "send"]
        ELSE /\ pc' = [pc EXCEPT ![r] = "send_except"]
             /\ UNCHANGED <<cleanup, timer>>
    /\ UNCHANGED <<req, status, body, dirs, files, created, called, filename,
                   filepath, stream, removedBy, swallowed>>
    /\ UNCHANGED purevars

\* return send_file(abs_path, as_attachment=True): opens the file, or raises
SendFile(r) ==
    /\ pc[r] = "send"
    /\ \E ok \in BOOLEAN :
        IF ok /\ r \in dirs /\ filepath[r] \in files[r]
        THEN /\ stream' = [stream EXCEPT ![r] = "streaming"]
             /\ status' = [status EXCEPT ![r] = 200]
             /\ body' = [body EXCEPT ![r] = "file"]
             /\ pc' = [pc EXCEPT ![r] = "done"]
        ELSE /\ pc' = [pc EXCEPT ![r] = "send_except"]
             /\ UNCHANGED <<stream, status, body>>
    /\ UNCHANGED <<req, dirs, files, created, called, filename, filepath,
                   cleanup, timer, removedBy, swallowed>>
    /\ UNCHANGED purevars

\* except Exception: try rmtree / except pass; return 'Failed to send file', 500
SendExcept(r) ==
    /\ pc[r] = "send_except"
    /\ RmtreeGuarded(r, <<"handler", r>>)
    /\ status' = [status EXCEPT ![r] = 500]
    /\ body' = [body EXCEPT ![r] = "Failed to send file"]
    /\ pc' = [pc EXCEPT ![r] = "done"]
    /\ UNCHANGED <<req, created, called, filename, filepath, cleanup, timer,
                   stream>>
    /\ UNCHANGED purevars

(***************************************************************************)
(* The response transfer (WSGI server, after the handler returned)         *)
(***************************************************************************)
TransferEnd(r) ==
    /\ stream[r] = "streaming"
    /\ stream' = [stream EXCEPT ![r] = "complete"]
    /\ UNCHANGED <<pc, req, status, body, dirs, files, created, called,
                   filename, filepath, cleanup, timer, removedBy, swallowed>>
    /\ UNCHANGED purevars

ClientAbort(r) ==
    /\ stream[r] = "streaming"
    /\ stream' = [stream EXCEPT ![r] = "aborted"]
    /\ UNCHANGED <<pc, req, status, body, dirs, files, created, called,
                   filename, filepath, cleanup, timer, removedBy, swallowed>>
    /\ UNCHANGED purevars

(***************************************************************************)
(* cleanup_later and time                                                  *)
(***************************************************************************)
\* CleanupFire without the time.sleep(delay)
CleanupFireNoSleep(r) ==
    /\ cleanup[r] = "sleeping"
    /\ RmtreeGuarded(r, <<"cleanup", r>>)
    /\ cleanup' = [cleanup EXCEPT ![r] = "finished"]
    /\ UNCHANGED <<pc, req, status, body, created, called, filename, filepath,
                   timer, stream>>
    /\ UNCHANGED purevars

\* CleanupFire without the rmtree
CleanupFireNoRemove(r) ==
    /\ cleanup[r] = "sleeping"
    /\ timer[r] = 0
    /\ cleanup' = [cleanup EXCEPT ![r] = "finished"]
    /\ UNCHANGED <<pc, req, status, body, dirs, files, created, called,
                   filename, filepath, timer, stream, removedBy, swallowed>>
    /\ UNCHANGED purevars

\* CleanupFire removing the parent of the scratch directories
CleanupFireAll(r) ==
    /\ cleanup[r] = "sleeping"
    /\ timer[r] = 0
    /\ dirs' = {}
    /\ files' = [d \in Reqs |-> {}]
    /\ removedBy' = [d \in Reqs |->
                        IF d \in dirs THEN removedBy[d] \cup {<<"cleanup", r>>}
                        ELSE removedBy[d]]
    /\ swallowed' = swallowed
    /\ cleanup' = [cleanup EXCEPT ![r] = "finished"]
    /\ UNCHANGED <<pc, req, status, body, created, called, filename, filepath,
                   timer, stream>>
    /\ UNCHANGED purevars

\* CleanupFire waiting for the transfer to end
CleanupFireAfterTransfer(r) ==
    /\ cleanup[r] = "sleeping"
    /\ timer[r] = 0
    /\ stream[r] # "streaming"
    /\ RmtreeGuarded(r, <<"cleanup", r>>)
    /\ cleanup' = [cleanup EXCEPT ![r] = "finished"]
    /\ UNCHANGED <<pc, req, status, body, created, called, filename, filepath,
                   timer, stream>>
    /\ UNCHANGED purevars

\* after time.sleep(delay): try rmtree(dirpath) / except pass
CleanupFire(r) ==
    /\ cleanup[r] = "sleeping"
    /\ timer[r] = 0
    /\ RmtreeGuarded(r, <<"cleanup", r>>)
    /\ cleanup' = [cleanup EXCEPT ![r] = "finished"]
    /\ UNCHANGED <<pc, req, status, body, created, called, filename, filepath,
                   timer, stream>>
    /\ UNCHANGED purevars

\* One second passes. A handler between Thread.start() and send_file() runs
\* no blocking call: it reaches send_file within SendLatency seconds.
Tick ==
    /\ \E r \in Reqs : cleanup[r] = "sleeping" /\ timer[r] > 0
    /\ \A r \in Reqs : pc[r] = "send" => Delay - timer[r] + TickSeconds <= SendLatency
    /\ timer' = [r \in Reqs |->
                    IF cleanup[r] = "sleeping" /\ timer[r] > 0
                    THEN (IF timer[r] > TickSeconds THEN timer[r] - TickSeconds ELSE 0)
                    ELSE timer[r]]
    /\ UNCHANGED <<pc, req, status, body, dirs, files, created, called,
                   filename, filepath, cleanup, stream, removedBy, swallowed>>
    /\ UNCHANGED purevars

Next ==
    \/ \E r \in Reqs : Formats(r)
    \/ \E r \in Reqs : Download(r)
    \/ \E r \in Reqs : Mkdtemp(r)
    \/ \E r \in Reqs : ExtractInfo(r)
    \/ \E r \in Reqs : DownloadExcept(r)
    \/ \E r \in Reqs : LocateFile(r)
    \/ \E r \in Reqs : FetchFailed(r)
    \/ \E r \in Reqs : StartThread(r)
    \/ \E r \in Reqs : SendFile(r)
    \/ \E r \in Reqs : SendExcept(r)
    \/ \E r \in Reqs : TransferEnd(r)
    \/ \E r \in Reqs : ClientAbort(r)
    \/ \E r \in Reqs : CleanupFire(r)
    \/ Tick

Spec == Init /\ [][Next]_vars

\* Every started handler step and every cleanup thread is scheduled, and
\* time passes.
Fairness ==
    /\ WF_vars(Tick)
    /\ \A r \in Reqs :
        /\ WF_vars(StartThread(r))
        /\ WF_vars(SendFile(r))
        /\ WF_vars(SendExcept(r))
        /\ WF_vars(CleanupFire(r))

SpecFair == Init /\ [][Next]_vars /\ Fairness

(***************************************************************************)
(* Properties of the request handlers                                      *)
(***************************************************************************)
\* download_video_to_temp returned (tempdir, filename) for request r
FetchSucceeded(r) == filepath[r] # NoFile

\* download_video_to_temp raised for request r
FetchRaised(r) == pc[r] = "dl_raised" \/ body[r] = "Error during download"

C2_FileExistsAtSend ==
    \A r \in Reqs :
        pc[r] = "send" =>
            /\ r \in dirs
            /\ filepath[r] \in files[r]
            /\ cleanup[r] = "sleeping"
            /\ timer[r] > 0

\* a handler about to call send_file while its cleanup thread has already
\* slept for a while
C2_Witness ==
    \E r \in Reqs :
        pc[r] = "send" /\ cleanup[r] = "sleeping" /\ timer[r] < Delay

ClientInputError(r) ==
    \/ req[r].route = "formats" /\ Falsy(req[r].url)
    \/ req[r].route = "download"
        /\ (Falsy(req[r].url) \/ req[r].fmt \notin {"mp3", "mp4"})

\* C5: a request with a client input error ends with 400, the extractor
\* was never invoked for it and no scratch directory was created.
C5_RejectedBeforeExternalWork ==
    \A r \in Reqs :
        ClientInputError(r) =>
            /\ pc[r] = "done"
            /\ status[r] = 400
            /\ ~called[r]
            /\ ~created[r]
            /\ r \notin dirs

\* all three rejections have happened
C5_Witness ==
    /\ \E r \in Reqs : req[r].route = "formats" /\ status[r] = 400 /\ ~called[r]
    /\ \E r \in Reqs :
        /\ req[r].route = "download"
        /\ ~Falsy(req[r].url)
        /\ req[r].fmt = "avi"
        /\ status[r] = 400

\* C6: a successful mp3 fetch returns a path that ends in .mp3.
C6_Mp3Extension ==
    \A r \in Reqs :
        (req[r].fmt = "mp3" /\ FetchSucceeded(r)) => filepath[r].ext = "mp3"

\* C9: after a successful fetch only the request's own cleanup thread ever
\* removes the scratch directory.
C9_SoleDestroyer ==
    \A r \in Reqs :
        FetchSucceeded(r) => removedBy[r] \subseteq {<<"cleanup", r>>}

\* C9 (amended): after a successful fetch the scratch directory is removed
\* at most once, by the request's own cleanup thread or by the request's own
\* handler when starting the thread or send_file raised; never by another
\* request.
C9_OwnActorsOnly ==
    \A r \in Reqs :
        FetchSucceeded(r) =>
            /\ removedBy[r] \subseteq {<<"cleanup", r>>, <<"handler", r>>}
            /\ Cardinality(removedBy[r]) <= 1
            /\ <<"handler", r>> \in removedBy[r] =>
                    pc[r] = "done" /\ body[r] = "Failed to send file"

\* the handler removed its directory while another request's directory,
\* whose cleanup thread has fired or not, is untouched
C9_Witness ==
    \E r, q \in Reqs :
        /\ r # q
        /\ FetchSucceeded(r) /\ <<"handler", r>> \in removedBy[r]
        /\ FetchSucceeded(q) /\ q \in dirs

\* C10: the cleanup thread fires when its sleep is over, whether the
\* transfer is in progress, complete or aborted.
C10_CleanupIgnoresTransfer ==
    \A r \in Reqs :
        (cleanup[r] = "sleeping" /\ timer[r] = 0) => ENABLED CleanupFire(r)

\* the directory was removed by the cleanup thread while the file is still
\* being streamed
C10_Witness ==
    \E r \in Reqs :
        /\ stream[r] = "streaming"
        /\ <<"cleanup", r>> \in removedBy[r]
        /\ r \notin dirs

(***************************************************************************)
(* Strings of the form field `resolution`, and Python's int(str)           *)
(***************************************************************************)
\* longest `resolution` string tried
MaxLen == 3
Chars == {" ", "+", "-", "_", "0", "7", "a"}
Digits == {"0", "7"}
Best == <<"b", "e", "s", "t">>
Strings == UNION {[1..n -> Chars] : n \in 0..MaxLen}
ResolutionInputs == Strings \cup {Best}

DigitVal(c) == IF c = "7" THEN 7 ELSE 0

RECURSIVE LStrip(_)
LStrip(s) == IF s # <<>> /\ Head(s) = " " THEN LStrip(Tail(s)) ELSE s

RECURSIVE RStrip(_)
RStrip(s) == IF s # <<>> /\ s[Len(s)] = " "
             THEN RStrip(SubSeq(s, 1, Len(s) - 1)) ELSE s

\* digits, single underscores allowed between two digits
ValidDigits(d) ==
    /\ Len(d) > 0
    /\ d[1] \in Digits
    /\ d[Len(d)] \in Digits
    /\ \A i \in 1..Len(d) : d[i] \in Digits \cup {"_"}
    /\ \A i \in 1..(Len(d) - 1) : ~(d[i] = "_" /\ d[i + 1] = "_")

RECURSIVE DigitsValue(_, _)
DigitsValue(d, acc) ==
    IF d = <<>> THEN acc
    ELSE IF Head(d) = "_" THEN DigitsValue(Tail(d), acc)
    ELSE DigitsValue(Tail(d), 10 * acc + DigitVal(Head(d)))

\* int(s): surrounding whitespace stripped, an optional sign, decimal digits;
\* ok = FALSE stands for ValueError
PyInt(s) ==
    LET t == RStrip(LStrip(s))
        signed == t # <<>> /\ Head(t) \in {"+", "-"}
        d == IF signed THEN Tail(t) ELSE t
    IN  IF ValidDigits(d)
        THEN [ok |-> TRUE,
              val |-> IF signed /\ Head(t) = "-"
                      THEN 0 - DigitsValue(d, 0) ELSE DigitsValue(d, 0)]
        ELSE [ok |-> FALSE, val |-> 0]

\* `resolution` is either the string 'best' or an int
ResBest == [best |-> TRUE, n |-> 0]
ResInt(n) == [best |-> FALSE, n |-> n]

\* download(): if resolution != 'best': try int(resolution) except: 'best'
ConvertResolution(raw) ==
    IF raw = Best THEN ResBest
    ELSE IF PyInt(raw).ok THEN ResInt(PyInt(raw).val)
    ELSE ResBest

(***************************************************************************)
(* The format selector: alternatives separated by "/", each a sequence of  *)
(* streams joined by "+", each stream with an optional [height<=N] filter  *)
(***************************************************************************)
Uncapped(name) == [stream |-> name, capped |-> FALSE, maxh |-> 0]
UpTo(name, n) == [stream |-> name, capped |-> TRUE, maxh |-> n]

\* FormatSelector with the fallback alternative left uncapped
FormatSelectorOpenFallback(want_format, resolution) ==
    IF want_format = "mp3"
    THEN << <<Uncapped("bestaudio")>>, <<Uncapped("best")>> >>
    ELSE IF resolution.best
    THEN << <<Uncapped("bestvideo"), Uncapped("bestaudio")>>, <<Uncapped("best")>> >>
    ELSE << <<UpTo("bestvideo", resolution.n), Uncapped("bestaudio")>>,
            <<Uncapped("best")>> >>

\* download_video_to_temp: ydl_opts['format']
FormatSelector(want_format, resolution) ==
    IF want_format = "mp3"
    THEN << <<Uncapped("bestaudio")>>, <<Uncapped("best")>> >>
    ELSE IF resolution.best
    THEN << <<Uncapped("bestvideo"), Uncapped("bestaudio")>>, <<Uncapped("best")>> >>
    ELSE << <<UpTo("bestvideo", resolution.n), Uncapped("bestaudio")>>,
            <<UpTo("best", resolution.n)>> >>

(***************************************************************************)
(* extract_video_resolutions                                               *)
(***************************************************************************)
\* stream descriptors in one info['formats']
MaxDescriptors == 5
\* distinct heights the extractor reports
MaxHeight == 3

\* f.get('height'): None, or a pixel height
NoHeight == [none |-> TRUE, v |-> 0]
Height(n) == [none |-> FALSE, v |-> n]
HeightValues == {NoHeight} \cup {Height(n) : n \in 1..MaxHeight}
FormatLists == UNION {[1..n -> HeightValues] : n \in 0..MaxDescriptors}

\* `if h:`
Truthy(h) == ~h.none /\ h.v # 0

SetMax(S) == CHOOSE m \in S : \A x \in S : x <= m

\* sorted(heights, reverse=True)
RECURSIVE SortedDesc(_)
SortedDesc(S) ==
    IF S = {} THEN <<>>
    ELSE <<SetMax(S)>> \o SortedDesc(S \ {SetMax(S)})

\* sorted(heights), without reverse=True
RECURSIVE SortedAsc(_)
SortedAsc(S) ==
    IF S = {} THEN <<>>
    ELSE SortedAsc(S \ {SetMax(S)}) \o <<SetMax(S)>>

\* heights = set(); for f in formats: if h: heights.add(int(h))
CollectHeights(formats) ==
    {formats[i].v : i \in {j \in 1..Len(formats) : Truthy(formats[j])}}

\* ExtractVideoResolutions returning the heights in ascending order
ExtractVideoResolutionsAsc(formats) == SortedAsc(CollectHeights(formats))

ExtractVideoResolutions(formats) == SortedDesc(CollectHeights(formats))

(***************************************************************************)
(* SpecPure: the pure parts applied to every bounded input                 *)
(***************************************************************************)
PureInit ==
    /\ MainInit
    /\ p_resolution = ResBest
    /\ p_selector = <<>>
    /\ p_heights = <<>>
    /\ \/ /\ p_pc = "download"
          /\ p_fmt \in {"mp3", "mp4"}
          /\ p_raw \in ResolutionInputs
          /\ p_formats = <<>>
       \/ /\ p_pc = "formats"
          /\ p_fmt = "mp4"
          /\ p_raw = <<>>
          /\ p_formats \in FormatLists

\* download(): lines 474-479
Convert ==
    /\ p_pc = "download"
    /\ p_resolution' = ConvertResolution(p_raw)
    /\ p_pc' = "converted"
    /\ UNCHANGED <<p_fmt, p_raw, p_selector, p_formats, p_heights>>
    /\ UNCHANGED mainvars

\* download_video_to_temp(): lines 383-409
BuildSelector ==
    /\ p_pc = "converted"
    /\ p_selector' = FormatSelector(p_fmt, p_resolution)
    /\ p_pc' = "built"
    /\ UNCHANGED <<p_fmt, p_raw, p_resolution, p_formats, p_heights>>
    /\ UNCHANGED mainvars

\* extract_video_resolutions(): lines 360-368
ListResolutions ==
    /\ p_pc = "formats"
    /\ p_heights' = ExtractVideoResolutions(p_formats)
    /\ p_pc' = "listed"
    /\ UNCHANGED <<p_fmt, p_raw, p_resolution, p_selector, p_formats>>
    /\ UNCHANGED mainvars

NextPure == Convert \/ BuildSelector \/ ListResolutions

SpecPure == PureInit /\ [][NextPure]_vars

(***************************************************************************)
(* Properties of the pure parts                                            *)
(***************************************************************************)
\* the string denotes a positive integer
DenotesPositiveInt(raw) == PyInt(raw).ok /\ PyInt(raw).val > 0

\* C4: for a video request, a `resolution` that is 'best' or does not parse
\* as a positive integer gives the selector of 'best'.
C4_NonPositiveIsBest ==
    (p_pc = "built" /\ p_fmt = "mp4"
        /\ (p_raw = Best \/ ~DenotesPositiveInt(p_raw)))
    => p_selector = FormatSelector("mp4", ResBest)

\* a stream that carries video
Video(term) == term.stream \in {"bestvideo", "best"}

\* an alternative that comes with audio: a merged bestaudio, or `best`, the
\* best single file holding video and audio
HasAudio(alt) == \E i \in 1..Len(alt) : alt[i].stream \in {"bestaudio", "best"}

\* C8: for a video request with an integer ceiling N, every alternative of
\* the selector caps the video height at N and comes with audio, and the
\* preferred alternative merges bestvideo with bestaudio.
C8_SelectorCapsHeight ==
    (p_pc = "built" /\ p_fmt = "mp4" /\ ~p_resolution.best) =>
        /\ Len(p_selector) > 0
        /\ \A a \in 1..Len(p_selector) :
            /\ \A i \in 1..Len(p_selector[a]) :
                Video(p_selector[a][i]) =>
                    /\ p_selector[a][i].capped
                    /\ p_selector[a][i].maxh = p_resolution.n
            /\ \E i \in 1..Len(p_selector[a]) : Video(p_selector[a][i])
            /\ HasAudio(p_selector[a])
        /\ p_selector[1] = <<UpTo("bestvideo", p_resolution.n), Uncapped("bestaudio")>>

\* the selector built for resolution "70"
C8_Witness ==
    /\ p_pc = "built"
    /\ p_fmt = "mp4"
    /\ p_raw = <<"7", "0">>
    /\ p_resolution = ResInt(70)

\* C7: the list returned holds exactly the heights present in the
\* descriptors, in strictly descending order.
C7_DistinctDescending ==
    p_pc = "listed" =>
        /\ \A i, j \in 1..Len(p_heights) : i < j => p_heights[i] > p_heights[j]
        /\ {p_heights[i] : i \in 1..Len(p_heights)}
            = {p_formats[k].v : k \in {n \in 1..Len(p_formats) : ~p_formats[n].none}}

\* descriptors with a repeated height and an audio-only one, as in
\* {480, 480, 720, None, 1080} -> [1080, 720, 480]
C7_Witness ==
    /\ p_pc = "listed"
    /\ p_formats = <<Height(1), Height(1), Height(2), NoHeight, Height(3)>>
    /\ p_heights = <<3, 2, 1>>

====
